---- MODULE Spec2Model ----
(***************************************************************************)
(* Model of inky_calendar.py: the two-day timetable renderer.              *)
(*                                                                         *)
(* Time is counted in whole minutes since 00:00 of "today" (day 0).  The   *)
(* instants the model draws are on the minute grid, so the one-microsecond *)
(* step of the source (time.max, timedelta(microseconds=1)) is the grid    *)
(* step: on grid instants  x <= y - 1us  <=>  x <= y - 1.                  *)
(*                                                                         *)
(* An Event object is a record; its field id is the object's identity,     *)
(* which dataclass equality and hashing do not see; Val(e) is what they    *)
(* see.  A dict keyed by Event is a function on Val(e).                    *)
(***************************************************************************)
EXTENDS Integers, Sequences, FiniteSets, TLC

(* ---------------- bounds of the model ---------------- *)
MaxEvents == 3          \* longest event list handed to the layout
MaxSlot == 2            \* event endpoints are grid slots 0..MaxSlot
MaxReorder == 2         \* longest event list laid out again in another order
NumButtons == 2         \* buttons found by collect_buttons
MaxPresses == 3         \* presses in one run of the listener
MaxSources == 2         \* calendars in the configuration
MaxComponents == 2      \* components in one feed
MaxDayEvents == 2       \* events handed to split_events_by_day directly

(* ---------------- program constants ---------------- *)
MinutesPerHour == 60
HoursPerDay == 24
MinutesPerDay == HoursPerDay * MinutesPerHour
MinBlockHeight == 6     \* event_to_block: if y2 <= y1 + 6
Gap == 6                \* render_events: gap = 6
Inset == 6              \* render_events: column_left + 6, column_right - 6

Titles == {"a", "b"}
GridStart == 9 * MinutesPerHour
GridStep == MinutesPerHour \div 2
SlotTime(k) == GridStart + k * GridStep

VARIABLES
    events,         \* the list of Event objects of one day bucket (timed)
    events2,        \* the same objects in another input order
    placements,     \* dict Event -> (column_index, column_count)
    placements2,    \* the dict computed from events2
    groups,         \* the groups of the grouping sweep
    view,           \* arguments of render_events: day, window, band, column
    rects,          \* per list position: the rectangle drawn
    lpc             \* position of the layout run

layoutVars == <<events, events2, placements, placements2, groups, view, rects, lpc>>

VARIABLES
    held,             \* per button: physically pressed now
    has_when_pressed, \* the buttons have a when_pressed attribute (line 795)
    readable,         \* read_pressed finds is_pressed, value or read (lines 801-808)
    update_lock,      \* update_lock is held
    tpc,              \* per thread: "idle" or "updating" (inside update_display)
    trigger,          \* per thread: the press (its number) it handles
    last_states,      \* last_states of the polling loop
    poll_index,       \* position of the for loop of line 811
    listener,         \* "running", "crashed" (exception) or "stopped"
    press_id,         \* per button: the number of its latest press
    late,             \* the presses that began while the lock was held
    last_call,        \* the latest call of handle_press and what it did
    presses           \* number of presses so far

VARIABLES
    calendars,        \* config.calendars with what each feed holds now
    config,           \* the configuration
    uevents,          \* events of update_display
    source_index,     \* position of the loop of line 743
    buckets,          \* event_groups: the today and tomorrow lists
    drawing,          \* what render_calendar drew
    upc,              \* position in update_display
    rc                \* the value update_display returns

updateVars == <<calendars, config, uevents, source_index, buckets, drawing, upc, rc>>

buttonVars == <<held, has_when_pressed, readable, update_lock, tpc, trigger, last_states,
                poll_index, listener, press_id, late, last_call, presses>>

(* ---------------- helpers ---------------- *)
Max2(a, b) == IF a >= b THEN a ELSE b
Min2(a, b) == IF a <= b THEN a ELSE b

\* Python int() of a quotient n/d with d > 0: truncation toward zero
Trunc(n, d) == IF n >= 0 THEN n \div d ELSE -((-n) \div d)

EmptyDict == [x \in {} |-> 0]
DictSet(d, k, v) == (k :> v) @@ d

(* ---------------- Event ---------------- *)
\* dataclass(frozen=True) Event: generated __eq__/__hash__ over the fields
Val(e) == [title |-> e.title, start |-> e.start, end |-> e.end,
           calendar_name |-> e.calendar_name, all_day |-> e.all_day]

\* a sort that looks at the start only
LayoutKeyLeqStartOnly(a, b) == a.start <= b.start

\* sort key of compute_event_layout: (ev.start, ev.end)
LayoutKeyLeq(a, b) == \/ a.start < b.start
                      \/ (a.start = b.start /\ a.end <= b.end)

\* sorted(..., key=(start, end)): stable, an element goes after every
\* element whose key is not greater
RECURSIVE InsertByKey(_, _)
InsertByKey(e, s) ==
    IF s = <<>> THEN <<e>>
    ELSE IF LayoutKeyLeq(Head(s), e) THEN <<Head(s)>> \o InsertByKey(e, Tail(s))
    ELSE <<e>> \o s

RECURSIVE SortedByStartEnd(_)
SortedByStartEnd(s) ==
    IF s = <<>> THEN <<>>
    ELSE InsertByKey(s[Len(s)], SortedByStartEnd(SubSeq(s, 1, Len(s) - 1)))

(* ---------------- compute_event_layout: grouping sweep ---------------- *)
\* one iteration of "for event in sorted_events" (lines 334-346); st holds
\* groups, group and group_end.  A datetime is never falsy, so
\* (group_end or event.end) is group_end.
GroupStep(st, event) ==
    IF st.group = <<>>
    THEN [groups |-> st.groups, group |-> <<event>>, group_end |-> event.end]
    ELSE IF event.start <= st.group_end
    THEN [groups |-> st.groups,
          group |-> Append(st.group, event),
          group_end |-> IF event.end > st.group_end THEN event.end ELSE st.group_end]
    ELSE [groups |-> Append(st.groups, st.group),
          group |-> <<event>>,
          group_end |-> event.end]

RECURSIVE GroupSweep(_, _)
GroupSweep(st, s) ==
    IF s = <<>> THEN st ELSE GroupSweep(GroupStep(st, Head(s)), Tail(s))

\* lines 330-348: the list of groups
GroupsOf(evs) ==
    LET st == GroupSweep([groups |-> <<>>, group |-> <<>>, group_end |-> 0],
                         SortedByStartEnd(evs))
    IN IF st.group # <<>> THEN Append(st.groups, st.group) ELSE st.groups

(* ---------------- compute_event_layout: column packing ---------------- *)
\* an eviction that keeps a column whose occupant ends exactly at the start
EvictKeepTouching(active, start) == SelectSeq(active, LAMBDA item : item[1] >= start)

\* line 356: active = [(end, col) for end, col in active if end > event.start]
Evict(active, start) == SelectSeq(active, LAMBDA item : item[1] > start)

\* line 357
ActiveCols(active) == {active[i][2] : i \in 1..Len(active)}

\* lines 358-360: col = 0; while col in active_cols: col += 1
FirstFreeCol(active_cols) ==
    CHOOSE c \in 0..Cardinality(active_cols) :
        /\ c \notin active_cols
        /\ \A d \in 0..(c - 1) : d \in active_cols

\* line 362: active.sort(key=lambda item: item[0]), stable
RECURSIVE InsertByEnd(_, _)
InsertByEnd(item, s) ==
    IF s = <<>> THEN <<item>>
    ELSE IF Head(s)[1] <= item[1] THEN <<Head(s)>> \o InsertByEnd(item, Tail(s))
    ELSE <<item>> \o s

RECURSIVE SortedByEnd(_)
SortedByEnd(s) ==
    IF s = <<>> THEN <<>>
    ELSE InsertByEnd(s[Len(s)], SortedByEnd(SubSeq(s, 1, Len(s) - 1)))

\* one iteration of the loop of lines 355-364; st holds active,
\* column_for_event and max_cols
PackStep(st, event) ==
    LET kept == Evict(st.active, event.start)
        col == FirstFreeCol(ActiveCols(kept))
        active == SortedByEnd(Append(kept, <<event.end, col>>))
    IN [active |-> active,
        column_for_event |-> DictSet(st.column_for_event, Val(event), col),
        max_cols |-> Max2(st.max_cols, Len(active))]

RECURSIVE PackSweep(_, _)
PackSweep(st, s) ==
    IF s = <<>> THEN st ELSE PackSweep(PackStep(st, Head(s)), Tail(s))

\* lines 352-364 for one group
PackGroup(group) ==
    PackSweep([active |-> <<>>, column_for_event |-> EmptyDict, max_cols |-> 1],
              SortedByStartEnd(group))

\* lines 365-366: placements[event] = (column_for_event[event], max_cols)
RECURSIVE StorePlacements(_, _, _)
StorePlacements(pl, group, packed) ==
    IF group = <<>> THEN pl
    ELSE StorePlacements(
            DictSet(pl, Val(Head(group)),
                    <<packed.column_for_event[Val(Head(group))], packed.max_cols>>),
            Tail(group), packed)

RECURSIVE PlaceGroups(_, _)
PlaceGroups(pl, gs) ==
    IF gs = <<>> THEN pl
    ELSE PlaceGroups(StorePlacements(pl, Head(gs), PackGroup(Head(gs))), Tail(gs))

\* compute_event_layout (lines 329-367)
compute_event_layout(evs) == PlaceGroups(EmptyDict, GroupsOf(evs))


(* ---------------- event_to_block (lines 258-280) ---------------- *)
\* datetime.combine(day, time(hour, 0)) in minutes
HourOfDay(day, hour) == day * MinutesPerDay + hour * MinutesPerHour

event_to_block(event, day, hour_start, hour_end, top, bottom) ==
    LET day_start == HourOfDay(day, hour_start)
        day_end == HourOfDay(day, hour_end)
        start == Max2(event.start, day_start)
        end == Min2(event.end, day_end)
        total_minutes == day_end - day_start
        start_minutes == start - day_start
        end_minutes == end - day_start
        height == bottom - top
        y1 == top + Trunc(start_minutes * height, total_minutes)
        y2 == top + Trunc(end_minutes * height, total_minutes)
    IN IF y2 <= y1 + MinBlockHeight THEN <<y1, y1 + MinBlockHeight>> ELSE <<y1, y2>>

(* ---------------- render_events (lines 283-326) ---------------- *)
\* placements.get(event, (0, 1))
DictGet(d, k, default) == IF k \in DOMAIN d THEN d[k] ELSE default

\* lines 297-309 for one event: the rectangle handed to rounded_rectangle
EventRect(event, pl, v) ==
    LET blk == event_to_block(event, v.day, v.hour_start, v.hour_end, v.top, v.bottom)
        y1 == blk[1] + 1
        y2a == blk[2] - 1
        y2 == IF y2a <= y1 THEN y1 + 1 ELSE y2a
        x_min == v.column_left + Inset
        x_max == v.column_right - Inset
        place == DictGet(pl, Val(event), <<0, 1>>)
        column_index == place[1]
        column_count == place[2]
        total_gap == Gap * (column_count - 1)
        available_width == Max2(1, x_max - x_min - total_gap)
        column_width == Max2(1, available_width \div column_count)
        x1 == x_min + column_index * (column_width + Gap)
        x2 == Min2(x_max, x1 + column_width)
    IN [x1 |-> x1, y1 |-> y1, x2 |-> x2, y2 |-> y2,
        column_index |-> column_index, column_count |-> column_count]

render_events(evs, v) ==
    LET pl == compute_event_layout(evs)
    IN [i \in 1..Len(evs) |-> EventRect(evs[i], pl, v)]

(* ---------------- inputs of the layout run ---------------- *)
Slots == 0..MaxSlot

\* timed events as parse_events builds them: end > start (lines 196-197)
TimedEventVals ==
    {v \in [title : Titles, start : {SlotTime(k) : k \in Slots},
            end : {SlotTime(k) : k \in Slots},
            calendar_name : {1}, all_day : {FALSE}] : v.end > v.start}

\* a new object for each list position
WithIds(vals) ==
    [i \in 1..Len(vals) |->
        [id |-> i, title |-> vals[i].title, start |-> vals[i].start,
         end |-> vals[i].end, calendar_name |-> vals[i].calendar_name,
         all_day |-> vals[i].all_day]]

EventLists ==
    {WithIds(vals) : vals \in UNION {[1..n -> TimedEventVals] : n \in 0..MaxEvents}}

\* hour window (config hour_start, hour_end) and pixel band of a day column
Views ==
    {[day |-> 0, hour_start |-> 7, hour_end |-> 22, top |-> b[1], bottom |-> b[2],
      column_left |-> 74, column_right |-> 840] : b \in {<<100, 1000>>, <<10, 100>>}}

NoView == [day |-> 0, hour_start |-> 0, hour_end |-> 0, top |-> 0, bottom |-> 0,
           column_left |-> 0, column_right |-> 0]

\* the input orders that keep the relative order of events with equal
\* (start, end)
SameTieOrder(evs, p) ==
    \A i, j \in 1..Len(evs) :
        (i < j /\ evs[p[i]].start = evs[p[j]].start /\ evs[p[i]].end = evs[p[j]].end)
            => p[i] < p[j]

Reorderings(evs) ==
    {[i \in 1..Len(evs) |-> evs[p[i]]] :
        p \in {q \in [1..Len(evs) -> 1..Len(evs)] :
                  /\ \A i, j \in 1..Len(evs) : i # j => q[i] # q[j]
                  /\ SameTieOrder(evs, q)}}

(* ---------------- the layout run ---------------- *)
LayoutInit ==
    /\ events \in EventLists
    /\ events2 = <<>>
    /\ placements = EmptyDict
    /\ placements2 = EmptyDict
    /\ groups = <<>>
    /\ view = NoView
    /\ rects = <<>>
    /\ lpc = "input"

\* a call of compute_event_layout on the bucket
ComputeLayout ==
    /\ lpc = "input"
    /\ placements' = compute_event_layout(events)
    /\ groups' = GroupsOf(events)
    /\ lpc' = "laid"
    /\ UNCHANGED <<events, events2, placements2, view, rects>>
    /\ UNCHANGED <<buttonVars, updateVars>>

\* a second call on the same objects in another order
Relayout ==
    /\ lpc = "laid"
    /\ Len(events) <= MaxReorder
    /\ \E evs \in Reorderings(events) :
        /\ events2' = evs
        /\ placements2' = compute_event_layout(evs)
    /\ lpc' = "relaid"
    /\ UNCHANGED <<events, placements, groups, view, rects>>
    /\ UNCHANGED <<buttonVars, updateVars>>

\* render_events on the bucket: layout, then one rectangle per event
RenderEvents ==
    /\ lpc = "input"
    /\ \E v \in Views :
        /\ view' = v
        /\ rects' = render_events(events, v)
    /\ placements' = compute_event_layout(events)
    /\ groups' = GroupsOf(events)
    /\ lpc' = "drawn"
    /\ UNCHANGED <<events, events2, placements2>>
    /\ UNCHANGED <<buttonVars, updateVars>>

LayoutNext == ComputeLayout \/ Relayout \/ RenderEvents


(* ================= listen_for_buttons (lines 766-821) ================= *)
\* Thread 0 is the main thread, which runs the polling loop; thread b is the
\* thread on which the library calls the when_pressed callback of button b.
\* The callback is entered on the press edge; a press of b while b's own
\* callback is still running delivers no second callback.
Buttons == 1..NumButtons
MainThread == 0
Threads == {MainThread} \cup Buttons

\* a guard that lets every caller in
AcquireAlways(locked) == TRUE

\* line 784: update_lock.acquire(blocking=False) succeeds iff the lock is free
AcquireNonBlocking(locked) == ~locked

\* the outcomes of update_display (lines 733-763): return 0, return 1, or an
\* exception raised before the try of line 754
UpdateOutcomes == {"ok", "failed", "raised"}

ButtonsInit ==
    /\ held = [b \in Buttons |-> FALSE]
    /\ has_when_pressed \in BOOLEAN
    /\ readable \in BOOLEAN
    /\ update_lock = FALSE
    /\ tpc = [t \in Threads |-> "idle"]
    /\ trigger = [t \in Threads |-> 0]
    /\ last_states = [b \in Buttons |-> FALSE]
    /\ poll_index = 1
    /\ listener = "running"
    /\ press_id = [b \in Buttons |-> 0]
    /\ late = {}
    /\ last_call = [thread |-> MainThread, found_locked |-> FALSE, result |-> "none"]
    /\ presses = 0

\* lines 783-788 up to the call of update_display, run by thread t for the
\* press numbered press: the thread either starts update_display or returns at once
HandlePressEnter(t, press) ==
    IF AcquireNonBlocking(update_lock)
    THEN /\ update_lock' = TRUE
         /\ tpc' = [tpc EXCEPT ![t] = "updating"]
         /\ trigger' = [trigger EXCEPT ![t] = press]
         /\ last_call' = [thread |-> t, found_locked |-> update_lock, result |-> "started"]
    ELSE /\ UNCHANGED <<update_lock, tpc, trigger>>
         /\ last_call' = [thread |-> t, found_locked |-> update_lock, result |-> "skipped"]

\* the user presses button b; when the button has when_pressed (lines
\* 794-796) the callback runs handle_press on the button's thread
Press(b) ==
    /\ listener = "running"
    /\ ~held[b]
    /\ presses < MaxPresses
    /\ presses' = presses + 1
    /\ held' = [held EXCEPT ![b] = TRUE]
    /\ press_id' = [press_id EXCEPT ![b] = presses + 1]
    /\ late' = IF update_lock THEN late \cup {presses + 1} ELSE late
    /\ IF has_when_pressed /\ tpc[b] = "idle"
       THEN HandlePressEnter(b, presses + 1)
       ELSE UNCHANGED <<update_lock, tpc, trigger, last_call>>
    /\ UNCHANGED <<has_when_pressed, readable, last_states, poll_index, listener>>
    /\ UNCHANGED <<layoutVars, updateVars>>

Release(b) ==
    /\ listener = "running"
    /\ held[b]
    /\ held' = [held EXCEPT ![b] = FALSE]
    /\ UNCHANGED <<has_when_pressed, readable, update_lock, tpc, trigger, last_states,
                   poll_index, listener, press_id, late, last_call, presses>>
    /\ UNCHANGED <<layoutVars, updateVars>>

\* one iteration of the for loop of lines 811-817 that does not enter
\* update_display
PollButton ==
    /\ listener = "running"
    /\ tpc[MainThread] = "idle"
    /\ poll_index <= NumButtons
    /\ LET b == poll_index
           pressed == held[b]
       IN IF ~readable
          THEN /\ poll_index' = poll_index + 1
               /\ UNCHANGED <<update_lock, tpc, trigger, last_call, last_states>>
          ELSE IF pressed /\ ~last_states[b]
          THEN /\ HandlePressEnter(MainThread, press_id[b])
               /\ IF AcquireNonBlocking(update_lock)
                  THEN UNCHANGED <<last_states, poll_index>>
                  ELSE /\ last_states' = [last_states EXCEPT ![b] = pressed]
                       /\ poll_index' = poll_index + 1
          ELSE /\ last_states' = [last_states EXCEPT ![b] = pressed]
               /\ poll_index' = poll_index + 1
               /\ UNCHANGED <<update_lock, tpc, trigger, last_call>>
    /\ UNCHANGED <<held, has_when_pressed, readable, listener, press_id, late, presses>>
    /\ UNCHANGED <<layoutVars, updateVars>>

\* line 818: time is datetime.time (line 11 rebinds the name of line 10), so
\* time.sleep raises AttributeError; the except of line 819 does not catch
\* it and the listener ends
PollSleep ==
    /\ listener = "running"
    /\ tpc[MainThread] = "idle"
    /\ poll_index = NumButtons + 1
    /\ listener' = "crashed"
    /\ UNCHANGED <<held, has_when_pressed, readable, update_lock, tpc, trigger,
                   last_states, poll_index, press_id, late, last_call, presses>>
    /\ UNCHANGED <<layoutVars, updateVars>>

\* a guard that is released only when update_display returns
LockAfterReturnOnly(outcome) == outcome = "raised"

\* lines 787-791: try ... finally: update_lock.release(); whether the lock
\* is still held once handle_press has exited with the given outcome
LockAfterHandlePress(outcome) == FALSE

\* update_display ends in thread t and handle_press releases the lock
\* (lines 788-791); in the main thread the loop then goes on with line 817,
\* or the exception leaves the loop
FinishUpdate(t, outcome) ==
    /\ listener = "running"
    /\ tpc[t] = "updating"
    /\ update_lock' = LockAfterHandlePress(outcome)
    /\ tpc' = [tpc EXCEPT ![t] = "idle"]
    /\ IF t = MainThread
       THEN IF outcome = "raised"
            THEN /\ listener' = "crashed"
                 /\ UNCHANGED <<last_states, poll_index>>
            ELSE /\ last_states' = [last_states EXCEPT ![poll_index] = TRUE]
                 /\ poll_index' = poll_index + 1
                 /\ UNCHANGED listener
       ELSE UNCHANGED <<last_states, poll_index, listener>>
    /\ UNCHANGED <<held, has_when_pressed, readable, trigger, press_id, late,
                   last_call, presses>>
    /\ UNCHANGED <<layoutVars, updateVars>>

\* lines 819-821: KeyboardInterrupt in the main thread; inside handle_press
\* the finally of line 790 releases the lock on the way out
KeyboardInterrupt ==
    /\ listener = "running"
    /\ listener' = "stopped"
    /\ IF tpc[MainThread] = "updating"
       THEN /\ update_lock' = LockAfterHandlePress("raised")
            /\ tpc' = [tpc EXCEPT ![MainThread] = "idle"]
       ELSE UNCHANGED <<update_lock, tpc>>
    /\ UNCHANGED <<held, has_when_pressed, readable, trigger, last_states, poll_index,
                   press_id, late, last_call, presses>>
    /\ UNCHANGED <<layoutVars, updateVars>>

ButtonsNext ==
    \/ \E b \in Buttons : Press(b)
    \/ \E b \in Buttons : Release(b)
    \/ PollButton
    \/ PollSleep
    \/ \E t \in Threads, outcome \in UpdateOutcomes : FinishUpdate(t, outcome)
    \/ KeyboardInterrupt

(* ================= update_display (lines 733-763) ================= *)
\* today is day 0 and tomorrow day 1 (lines 735-737)
Today == 0
Tomorrow == Today + 1

\* datetime.combine(day, time.min) and datetime.combine(day, time.max): the
\* first and the last instant of the day
DayMin(day) == day * MinutesPerDay
DayMax(day) == day * MinutesPerDay + MinutesPerDay - 1

\* an overlap test that takes the end of an all-day event as included
event_overlaps_day_inclusive(event_start, event_end, day, all_day) ==
    event_start <= DayMax(day) /\ event_end >= DayMin(day)

\* event_overlaps_day (lines 160-165); the microsecond taken from the end of
\* an all-day event is one step of the time grid
event_overlaps_day(event_start, event_end, day, all_day) ==
    LET day_start == DayMin(day)
        day_end == DayMax(day)
        end == IF all_day THEN event_end - 1 ELSE event_end
    IN event_start <= day_end /\ end >= day_start

(* ---------------- parse_events (lines 168-210) ---------------- *)
\* A raw property value (component.get(...).dt) is [kind, at]: kind says
\* what Python type it is, at is its instant (midnight for a date).
None == [kind |-> "none", at |-> 0]
DateTimeAt(m) == [kind |-> "datetime", at |-> m]
DateOn(day) == [kind |-> "date", at |-> DayMin(day)]
Unsupported == [kind |-> "other", at |-> 0]

\* normalize_datetime (lines 150-157): a datetime or a date gives an instant,
\* anything else raises ValueError
Normalizable(value) == value.kind \in {"datetime", "date"}
normalize_datetime(value) == value.at

\* one iteration of the loop of lines 176-209 on component number i of
\* source number k; st holds the local list events and whether an exception
\* has left the function
ParseComponent(st, component, k, i, days) ==
    IF st.raised THEN st
    ELSE IF component.name # "VEVENT" THEN st
    ELSE IF component.dtstart = None THEN st
    ELSE IF ~Normalizable(component.dtstart) THEN [st EXCEPT !.raised = TRUE]
    ELSE IF component.dtend # None /\ ~Normalizable(component.dtend)
    THEN [st EXCEPT !.raised = TRUE]
    ELSE
        LET start == normalize_datetime(component.dtstart)
            all_day == component.dtstart.kind = "date"
            end0 == IF component.dtend # None THEN normalize_datetime(component.dtend)
                    ELSE IF component.duration.present THEN start + component.duration.minutes
                    ELSE IF all_day THEN start + MinutesPerDay
                    ELSE start + MinutesPerHour
            end == IF end0 <= start THEN start + 1 ELSE end0
        IN IF \E d \in days : event_overlaps_day(start, end, d, all_day)
           THEN [st EXCEPT !.events =
                    Append(@, [id |-> <<k, i>>, title |-> component.summary,
                               start |-> start, end |-> end,
                               calendar_name |-> k, all_day |-> all_day])]
           ELSE st

RECURSIVE ParseFrom(_, _, _, _, _)
ParseFrom(st, components, k, i, days) ==
    IF i > Len(components) THEN st
    ELSE ParseFrom(ParseComponent(st, components[i], k, i, days), components, k, i + 1, days)

parse_events(components, k, days) ==
    ParseFrom([events |-> <<>>, raised |-> FALSE], components, k, 1, days)

\* what a source adds when the events parsed before an exception are kept
SourceContributionKeepPartial(source, k, days) ==
    IF ~source.fetch_ok THEN <<>>
    ELSE parse_events(source.components, k, days).events

\* lines 744-748: what one source adds to events; fetch_calendar or
\* parse_events raising leaves events as it was
SourceContribution(source, k, days) ==
    IF ~source.fetch_ok THEN <<>>
    ELSE LET parsed == parse_events(source.components, k, days)
         IN IF parsed.raised THEN <<>> ELSE parsed.events

(* ---------------- split_events_by_day (lines 225-233) ---------------- *)
\* sorted(..., key=lambda ev: ev.start), stable
RECURSIVE InsertByStart(_, _)
InsertByStart(e, s) ==
    IF s = <<>> THEN <<e>>
    ELSE IF Head(s).start <= e.start THEN <<Head(s)>> \o InsertByStart(e, Tail(s))
    ELSE <<e>> \o s

RECURSIVE SortedByStart(_)
SortedByStart(s) ==
    IF s = <<>> THEN <<>>
    ELSE InsertByStart(s[Len(s)], SortedByStart(SubSeq(s, 1, Len(s) - 1)))

split_events_by_day(evs, today, tomorrow) ==
    [today |-> SortedByStart(SelectSeq(evs,
                 LAMBDA e : event_overlaps_day(e.start, e.end, today, e.all_day))),
     tomorrow |-> SortedByStart(SelectSeq(evs,
                 LAMBDA e : event_overlaps_day(e.start, e.end, tomorrow, e.all_day)))]

(* ---------------- render_calendar (lines 446-554) ---------------- *)
\* the configuration values the geometry reads (load_config, lines 110-121)
DefaultConfig ==
    [hour_start |-> 7, hour_end |-> 22, margin |-> 24, column_gap |-> 20,
     title_font_size |-> 28, body_font_size |-> 20, footer_font_size |-> 16,
     render_width |-> 1600, render_height |-> 1200]

\* a small panel: the same configuration with a short image
SmallConfig == [DefaultConfig EXCEPT !.render_height = 240]

Configs == {DefaultConfig, SmallConfig}

\* render_all_day_events (lines 370-396): the rows drawn, top to bottom
AllDayRows(evs, cfg, top) ==
    LET row_height == cfg.body_font_size + 2 * 6
    IN [i \in 1..Len(evs) |->
            [id |-> evs[i].id,
             y1 |-> top + (i - 1) * (row_height + 6),
             y2 |-> top + (i - 1) * (row_height + 6) + row_height]]

\* the value render_all_day_events returns (line 396)
AllDayHeight(evs, cfg) ==
    IF Len(evs) > 0 THEN Len(evs) * (cfg.body_font_size + 2 * 6 + 6) ELSE 0

\* lines 456-461 and 472-495: the arguments render_events gets for a day
DayView(cfg, bucket_today, bucket_tomorrow, day, is_left) ==
    LET column_width == (cfg.render_width - cfg.margin * 2 - cfg.column_gap) \div 2
        left_x == cfg.margin + 50
        right_x == left_x + column_width + cfg.column_gap
        top == cfg.margin + cfg.title_font_size + 10
        bottom == cfg.render_height - cfg.margin - cfg.footer_font_size - 10
        all_day_today == SelectSeq(bucket_today, LAMBDA e : e.all_day)
        all_day_tomorrow == SelectSeq(bucket_tomorrow, LAMBDA e : e.all_day)
        grid_top == top + Max2(AllDayHeight(all_day_today, cfg),
                               AllDayHeight(all_day_tomorrow, cfg))
                        + (IF all_day_today # <<>> \/ all_day_tomorrow # <<>> THEN 10 ELSE 0)
        x == IF is_left THEN left_x ELSE right_x
    IN [day |-> day, hour_start |-> cfg.hour_start, hour_end |-> cfg.hour_end,
        top |-> grid_top, bottom |-> bottom,
        column_left |-> x, column_right |-> x + column_width]

\* what render_calendar draws for one day: rows of the all-day events, and
\* for the timed events the band of event_to_block and the rectangle
DayDrawing(cfg, bucket, v) ==
    LET timed == SelectSeq(bucket, LAMBDA e : ~e.all_day)
        all_day == SelectSeq(bucket, LAMBDA e : e.all_day)
    IN [view |-> v,
        all_day |-> AllDayRows(all_day, cfg,
                               cfg.margin + cfg.title_font_size + 10),
        timed |-> timed,
        blocks |-> [i \in 1..Len(timed) |->
                       event_to_block(timed[i], v.day, v.hour_start, v.hour_end,
                                      v.top, v.bottom)],
        rects |-> render_events(timed, v)]

render_calendar(cfg, today_events, tomorrow_events) ==
    [today |-> DayDrawing(cfg, today_events,
                          DayView(cfg, today_events, tomorrow_events, Today, TRUE)),
     tomorrow |-> DayDrawing(cfg, tomorrow_events,
                          DayView(cfg, today_events, tomorrow_events, Tomorrow, FALSE))]


(* ---------------- inputs of update_display ---------------- *)
\* the components a feed may hold: a well-formed timed event of today, an
\* event with no DTSTART, and an event whose DTSTART is of an unsupported
\* type
NoDuration == [present |-> FALSE, minutes |-> 0]

RawComponents ==
    {[name |-> "VEVENT", dtstart |-> DateTimeAt(HourOfDay(Today, 10)), dtend |-> None,
      duration |-> NoDuration, summary |-> "a"],
     [name |-> "VEVENT", dtstart |-> None, dtend |-> None,
      duration |-> NoDuration, summary |-> "a"],
     [name |-> "VEVENT", dtstart |-> Unsupported, dtend |-> None,
      duration |-> NoDuration, summary |-> "a"]}

Feeds == UNION {[1..n -> RawComponents] : n \in 0..MaxComponents}

\* a source whose fetch succeeds with some feed, or whose fetch raises
Sources ==
    {[fetch_ok |-> TRUE, components |-> f] : f \in Feeds}
        \cup {[fetch_ok |-> FALSE, components |-> <<>>]}

CalendarLists == UNION {[1..n -> Sources] : n \in 1..MaxSources}

Days == {Today, Tomorrow}

NoBuckets == [today |-> <<>>, tomorrow |-> <<>>]
NoDrawing == <<>>

\* events as they reach split_events_by_day without the feeds (the list of
\* build_demo_events, line 741, is one such list): each overlaps a day
DayInstants ==
    {HourOfDay(Today - 1, 23), HourOfDay(Today, 5), HourOfDay(Today, 6),
     HourOfDay(Today, 21) + 30, HourOfDay(Today, 23), HourOfDay(Today, 23) + 30,
     HourOfDay(Tomorrow, 1)}

DayEventVals ==
    {v \in [title : {"a"}, start : DayInstants, end : DayInstants,
            calendar_name : {1}, all_day : {FALSE}] :
        /\ v.end > v.start
        /\ \E d \in Days : event_overlaps_day(v.start, v.end, d, v.all_day)}
    \cup
    {v \in [title : {"a"},
            start : {DayMin(Today - 1), DayMin(Today), DayMin(Tomorrow)},
            end : {DayMin(Today), DayMin(Tomorrow), DayMin(Tomorrow + 1)},
            calendar_name : {1}, all_day : {TRUE}] :
        /\ v.end > v.start
        /\ \E d \in Days : event_overlaps_day(v.start, v.end, d, v.all_day)}

DayEventLists ==
    {WithIds(vals) : vals \in UNION {[1..n -> DayEventVals] : n \in 0..MaxDayEvents}}

(* ---------------- the run of update_display ---------------- *)
UpdateInit ==
    /\ calendars \in CalendarLists
    /\ config = DefaultConfig
    /\ uevents = <<>>
    /\ source_index = 1
    /\ buckets = NoBuckets
    /\ drawing = NoDrawing
    /\ upc = "collect"
    /\ rc = -1

\* the events are given without the feeds
DayInit ==
    /\ calendars = <<>>
    /\ config \in Configs
    /\ uevents \in DayEventLists
    /\ source_index = 1
    /\ buckets = NoBuckets
    /\ drawing = NoDrawing
    /\ upc = "collect"
    /\ rc = -1

\* one iteration of the loop of lines 743-748
CollectSource ==
    /\ upc = "collect"
    /\ source_index <= Len(calendars)
    /\ uevents' = uevents \o SourceContribution(calendars[source_index], source_index, Days)
    /\ source_index' = source_index + 1
    /\ UNCHANGED <<calendars, config, buckets, drawing, upc, rc>>
    /\ UNCHANGED <<layoutVars, buttonVars>>

\* line 750
SplitEventsByDay ==
    /\ upc = "collect"
    /\ source_index > Len(calendars)
    /\ buckets' = split_events_by_day(uevents, Today, Tomorrow)
    /\ upc' = "split"
    /\ UNCHANGED <<calendars, config, uevents, source_index, drawing, rc>>
    /\ UNCHANGED <<layoutVars, buttonVars>>

\* line 751
RenderCalendar ==
    /\ upc = "split"
    /\ drawing' = render_calendar(config, buckets.today, buckets.tomorrow)
    /\ upc' = "rendered"
    /\ UNCHANGED <<calendars, config, uevents, source_index, buckets, rc>>
    /\ UNCHANGED <<layoutVars, buttonVars>>

\* lines 754-763: saving or pushing the image works (return 0) or raises,
\* which is caught (return 1)
SaveAndPush ==
    /\ upc = "rendered"
    /\ \E ok \in BOOLEAN : rc' = IF ok THEN 0 ELSE 1
    /\ upc' = "done"
    /\ UNCHANGED <<calendars, config, uevents, source_index, buckets, drawing>>
    /\ UNCHANGED <<layoutVars, buttonVars>>

UpdateNext == CollectSource \/ SplitEventsByDay \/ RenderCalendar \/ SaveAndPush

DayNext == SplitEventsByDay \/ RenderCalendar \/ SaveAndPush

(* ---------------- specifications ---------------- *)
vars == <<layoutVars, buttonVars, updateVars>>

LayoutIdle ==
    /\ events = <<>> /\ events2 = <<>> /\ placements = EmptyDict
    /\ placements2 = EmptyDict /\ groups = <<>> /\ view = NoView
    /\ rects = <<>> /\ lpc = "off"

ButtonsIdle ==
    /\ held = [b \in Buttons |-> FALSE] /\ has_when_pressed = FALSE
    /\ readable = FALSE /\ update_lock = FALSE
    /\ tpc = [t \in Threads |-> "idle"] /\ trigger = [t \in Threads |-> 0]
    /\ last_states = [b \in Buttons |-> FALSE] /\ poll_index = 1
    /\ listener = "off" /\ press_id = [b \in Buttons |-> 0] /\ late = {}
    /\ last_call = [thread |-> MainThread, found_locked |-> FALSE, result |-> "none"]
    /\ presses = 0

UpdateIdle ==
    /\ calendars = <<>> /\ config = DefaultConfig /\ uevents = <<>>
    /\ source_index = 1 /\ buckets = NoBuckets /\ drawing = NoDrawing
    /\ upc = "off" /\ rc = -1

\* compute_event_layout and render_events on one bucket of timed events
InitLayout == LayoutInit /\ ButtonsIdle /\ UpdateIdle
SpecLayout == InitLayout /\ [][LayoutNext]_vars

\* the button listener
InitButtons == ButtonsInit /\ LayoutIdle /\ UpdateIdle
SpecButtons == InitButtons /\ [][ButtonsNext]_vars

\* update_display over the configured feeds
InitUpdate == UpdateInit /\ LayoutIdle /\ ButtonsIdle
SpecUpdate == InitUpdate /\ [][UpdateNext]_vars

\* update_display from a given event list: the day split and the drawing
InitDay == DayInit /\ LayoutIdle /\ ButtonsIdle
SpecDay == InitDay /\ [][DayNext]_vars

(* ======================= properties ======================= *)
Laid == lpc \in {"laid", "relaid", "drawn"}

Positions == 1..Len(events)

\* the index of the group that holds the object e
GroupOf(e) ==
    CHOOSE g \in 1..Len(groups) : \E k \in 1..Len(groups[g]) : groups[g][k].id = e.id

ColumnIndexOf(e) == placements[Val(e)][1]
ColumnCountOf(e) == placements[Val(e)][2]

TimeDisjoint(a, b) == a.end <= b.start \/ b.end <= a.start

\* C1: two distinct events of the list in the same group with the same
\* column_index have time ranges that do not overlap
C1_NoOverlapInColumn ==
    Laid => \A i, j \in Positions :
                (/\ i # j
                 /\ GroupOf(events[i]) = GroupOf(events[j])
                 /\ ColumnIndexOf(events[i]) = ColumnIndexOf(events[j]))
                    => TimeDisjoint(events[i], events[j])

\* sample instants over the grid span, twice as fine as the grid
Instants == {SlotTime(0) + k * (GridStep \div 2) : k \in 0..(2 * MaxSlot)}

ActiveAt(group, t) ==
    Cardinality({k \in 1..Len(group) : group[k].start <= t /\ t < group[k].end})

MaxActive(group) ==
    CHOOSE n \in 0..Len(group) :
        /\ \E t \in Instants : ActiveAt(group, t) = n
        /\ \A t \in Instants : ActiveAt(group, t) <= n

\* C2: within a group every event has the same column_count, which is the
\* largest number of the group's events active at one instant, and every
\* column_index is below it
C2_ColumnCountIsMaxActive ==
    Laid => \A g \in 1..Len(groups) :
                LET depth == MaxActive(groups[g])
                IN \A k \in 1..Len(groups[g]) :
                    /\ ColumnCountOf(groups[g][k]) = depth
                    /\ ColumnIndexOf(groups[g][k]) < ColumnCountOf(groups[g][k])

C2_Witness ==
    /\ lpc = "laid"
    /\ \E g \in 1..Len(groups) :
        /\ Len(groups[g]) = 3
        /\ MaxActive(groups[g]) = 2
        /\ \E k \in 1..3 : ColumnIndexOf(groups[g][k]) = 0 /\ ColumnCountOf(groups[g][k]) = 2

\* C3: two distinct events with equal fields are drawn with two different
\* column_index values
C3_EqualEventsGetOwnSlot ==
    lpc = "drawn" => \A i, j \in Positions :
                        (i # j /\ Val(events[i]) = Val(events[j]))
                            => rects[i].column_index # rects[j].column_index

RectsIntersect(r, q) ==
    /\ r.x1 <= q.x2 /\ q.x1 <= r.x2
    /\ r.y1 <= q.y2 /\ q.y1 <= r.y2

\* C4: the rectangles of two distinct events of a day column do not intersect
C4_RectanglesDisjoint ==
    lpc = "drawn" => \A i, j \in Positions :
                        i # j => ~RectsIntersect(rects[i], rects[j])

Updating == {t \in Threads : tpc[t] = "updating"}

\* C5: at most one update_display is in flight, and a handle_press that finds
\* the guard taken returns without running update_display
C5_AtMostOneUpdate ==
    /\ Cardinality(Updating) <= 1
    /\ (Updating # {}) => update_lock
    /\ last_call.found_locked => last_call.result = "skipped"

C5_Witness ==
    \E t \in Threads :
        /\ tpc[t] = "updating"
        /\ last_call.result = "skipped"
        /\ last_call.thread # t

\* C6: a press that arrives while a render is in progress never causes an
\* update_display run
C6_LatePressDropped == \A t \in Updating : trigger[t] \notin late

Drawn == upc \in {"rendered", "done"}

DayNames == {"today", "tomorrow"}

\* C7: the start coordinate y1 of every timed event of a day bucket lies in
\* the pixel band of the day, top <= y1 <= bottom
C7_StartInsideBand ==
    Drawn => \A d \in DayNames : \A i \in 1..Len(drawing[d].blocks) :
                /\ drawing[d].view.top <= drawing[d].blocks[i][1]
                /\ drawing[d].blocks[i][1] <= drawing[d].view.bottom

\* a component that is an event with a usable start
WellFormed(c) ==
    /\ c.name = "VEVENT"
    /\ Normalizable(c.dtstart)
    /\ c.dtend = None \/ Normalizable(c.dtend)

\* the event that parse_events builds from the well-formed component alone
AloneEvents(c, k, i) == ParseComponent([events |-> <<>>, raised |-> FALSE], c, k, i, Days).events

InBuckets(id) ==
    \/ \E n \in 1..Len(buckets.today) : buckets.today[n].id = id
    \/ \E n \in 1..Len(buckets.tomorrow) : buckets.tomorrow[n].id = id

\* C8: an event with an absent or unusable start is skipped alone: every
\* well-formed event of a fetched feed that overlaps today or tomorrow is in
\* the day buckets when the pass is done
C8_BadEventSkippedAlone ==
    upc = "done" =>
        \A k \in 1..Len(calendars) :
            calendars[k].fetch_ok =>
                \A i \in 1..Len(calendars[k].components) :
                    (/\ WellFormed(calendars[k].components[i])
                     /\ AloneEvents(calendars[k].components[i], k, i) # <<>>)
                        => InBuckets(<<k, i>>)

\* a source whose fetch or parse raises
SourceFails(source) ==
    \/ ~source.fetch_ok
    \/ \E i \in 1..Len(source.components) :
        LET c == source.components[i]
        IN /\ c.name = "VEVENT"
           /\ c.dtstart # None
           /\ \/ ~Normalizable(c.dtstart)
              \/ (c.dtend # None /\ ~Normalizable(c.dtend))

EventsOfSource(evs, k) == SelectSeq(evs, LAMBDA e : e.id[1] = k)

\* C9: a source whose fetch or parse raises adds no event, every other
\* source adds exactly its own events, and the pass goes on to the render
C9_FailedSourceAddsNothing ==
    upc # "off" =>
        /\ \A k \in 1..Len(calendars) :
            IF k < source_index
            THEN IF SourceFails(calendars[k])
                 THEN EventsOfSource(uevents, k) = <<>>
                 ELSE EventsOfSource(uevents, k)
                        = parse_events(calendars[k].components, k, Days).events
            ELSE EventsOfSource(uevents, k) = <<>>
        /\ Drawn => source_index = Len(calendars) + 1

C9_Witness ==
    /\ upc = "done"
    /\ Len(calendars) = 2
    /\ \E k \in 1..2 :
        /\ calendars[k].fetch_ok
        /\ parse_events(calendars[k].components, k, Days).raised
        /\ parse_events(calendars[k].components, k, Days).events # <<>>
        /\ EventsOfSource(uevents, k) = <<>>
        /\ EventsOfSource(uevents, 3 - k) # <<>>
        /\ InBuckets(<<3 - k, 1>>)

(* ---------------- all-day events ---------------- *)
Split == upc \in {"split", "rendered", "done"}

InBucket(bucket, id) == \E n \in 1..Len(bucket) : bucket[n].id = id

\* an all-day event whose range is [D 00:00, D+k 00:00) with k >= 1
WholeDays(e) ==
    /\ e.all_day
    /\ e.start % MinutesPerDay = 0
    /\ e.end % MinutesPerDay = 0
    /\ e.end > e.start

FirstDay(e) == e.start \div MinutesPerDay
DayCount(e) == (e.end - e.start) \div MinutesPerDay

\* the days the overlap test is asked about
ProbeDays == (Today - 2)..(Tomorrow + 2)

\* C11: an all-day event [D 00:00, D+k 00:00) overlaps exactly the days
\* D .. D+k-1, and split_events_by_day puts it in the buckets of exactly
\* those of today and tomorrow that are among them
C11_AllDayOverlapsItsDaysOnly ==
    Split =>
        \A i \in 1..Len(uevents) :
            LET e == uevents[i]
                covers(d) == FirstDay(e) <= d /\ d <= FirstDay(e) + DayCount(e) - 1
            IN WholeDays(e) =>
                /\ \A d \in ProbeDays :
                        event_overlaps_day(e.start, e.end, d, e.all_day) <=> covers(d)
                /\ InBucket(buckets.today, e.id) <=> covers(Today)
                /\ InBucket(buckets.tomorrow, e.id) <=> covers(Tomorrow)

\* a one-day all-day event of today is in today's bucket only, next to an
\* event that is in tomorrow's bucket
C11_Witness ==
    /\ Split
    /\ Len(uevents) = 2
    /\ WholeDays(uevents[1])
    /\ uevents[1].start = DayMin(Today)
    /\ uevents[1].end = DayMin(Tomorrow)
    /\ InBucket(buckets.today, uevents[1].id)
    /\ ~InBucket(buckets.tomorrow, uevents[1].id)
    /\ InBucket(buckets.tomorrow, uevents[2].id)

\* the position of an event in the collected list (feed order, then order
\* within the feed)
ArrivalIndex(id) == CHOOSE n \in 1..Len(uevents) : uevents[n].id = id

\* C12: the all-day rows of a day are stacked in arrival order: of two
\* all-day events of a bucket, the one that comes first in the collected
\* list is drawn in the higher row
C12_AllDayArrivalOrder ==
    Drawn =>
        \A d \in DayNames :
            LET rows == drawing[d].all_day
            IN \A i, j \in 1..Len(rows) :
                    ArrivalIndex(rows[i].id) < ArrivalIndex(rows[j].id)
                        => rows[i].y1 < rows[j].y1

(* ---------------- layout groups ---------------- *)
\* the places (group, position) at which the object e is held
PlacesOf(e) ==
    {gk \in UNION {{<<g, k>> : k \in 1..Len(groups[g])} : g \in 1..Len(groups)} :
        groups[gk[1]][gk[2]].id = e.id}

\* the positions reached from the set S by chains of overlapping events
RECURSIVE OverlapClosure(_)
OverlapClosure(S) ==
    LET T == S \cup {j \in Positions :
                        \E i \in S : ~TimeDisjoint(events[i], events[j])}
    IN IF T = S THEN S ELSE OverlapClosure(T)

Linked(i, j) == j \in OverlapClosure({i})

\* C13: the groups partition the input, and two events are in the same
\* group exactly when a chain of overlapping events links them
C13_GroupsAreOverlapClusters ==
    Laid =>
        /\ \A i \in Positions : Cardinality(PlacesOf(events[i])) = 1
        /\ \A g \in 1..Len(groups) : \A k \in 1..Len(groups[g]) :
                \E i \in Positions : events[i] = groups[g][k]
        /\ \A i, j \in Positions :
                (GroupOf(events[i]) = GroupOf(events[j])) <=> Linked(i, j)

(* ---------------- release of the guard ---------------- *)
NoUpdateInFlight == \A t \in Threads : tpc[t] # "updating"

\* C14: the guard is released on every exit path of handle_press: in every
\* state with no update in flight the lock is free, so the acquire of the
\* next handle_press succeeds
C14_LockFreeWhenNoUpdate ==
    NoUpdateInFlight => (~update_lock /\ AcquireNonBlocking(update_lock))

\* update_display has raised in the polling loop: the exception has left
\* handle_press and the loop in the middle of a pass, and the lock is free
C14_Witness ==
    /\ listener = "crashed"
    /\ poll_index <= NumButtons
    /\ last_call = [thread |-> MainThread, found_locked |-> FALSE, result |-> "started"]
    /\ NoUpdateInFlight
    /\ ~update_lock

(* ---------------- bottom edge of a block ---------------- *)
\* C15: the bottom edge y2 that event_to_block returns for a timed event of
\* a day bucket is never below the window, y2 <= bottom
C15_BottomEdgeInsideWindow ==
    Drawn => \A d \in DayNames : \A i \in 1..Len(drawing[d].blocks) :
                drawing[d].blocks[i][2] <= drawing[d].view.bottom

====
